---- MODULE Spec2Model ----
(***************************************************************************)
(* A model of funct.Array (src/funct/Array.py): a list subclass with       *)
(* element-wise broadcasting and multi-dimensional indexing.               *)
(*                                                                         *)
(* Python values are records [t, n, d, e]: t is the runtime type, n/d the  *)
(* numerator and denominator of a number (bool is 0/1, float is a reduced  *)
(* fraction), e the elements of a list, an Array or a str.  A list stands   *)
(* for any of list, tuple and range that is not an Array.                  *)
(*                                                                         *)
(* The specifications share the state: Spec and SpecStr make one mutating  *)
(* call on a constructed Array, SpecGet one read, SpecOp one element-wise   *)
(* operation, SpecFn one call of another method; SpecAsync runs asyncmap   *)
(* with the worker thread of its executor.                                 *)
(***************************************************************************)
EXTENDS Integers, Sequences, FiniteSets, TLC

VARIABLES arr, old, call, out, pc, queue, shutdown, worker, fut

vars == <<arr, old, call, out, pc, queue, shutdown, worker, fut>>

\* The state of asyncmap: pc is the position of the caller, queue the work
\* queue of the executor, shutdown its flag, worker its thread and fut the
\* Future.
pool == <<pc, queue, shutdown, worker, fut>>

(***************************************************************************)
(* Bounds of the explored inputs.                                          *)
(***************************************************************************)
\* The largest number of elements of a nested Array.
MaxLen == 2

\* The largest number of elements of a row of a nested Array.
MaxRow == 2

\* The largest number of elements of a one-dimensional Array.
MaxFlat == 4

\* The largest number of items of an integer-sequence key.
MaxKeyLen == 2

\* The largest number of elements of the receiver of an element-wise
\* operation; its operand has up to one element more.
MaxOpLen == 2

\* The largest number of elements of the receiver of asyncmap.
MaxMap == 2

\* The number of nested calls after which the interpreter raises
\* RecursionError; it exceeds the nesting depth of every Array explored.
MaxDepth == 5

-----------------------------------------------------------------------------
(***************************************************************************)
(* Python values.                                                          *)
(***************************************************************************)
PInt(n) == [t |-> "int", n |-> n, d |-> 1, e |-> <<>>]

PBool(b) == [t |-> "bool", n |-> IF b THEN 1 ELSE 0, d |-> 1, e |-> <<>>]

None == [t |-> "None", n |-> 0, d |-> 1, e |-> <<>>]

List(s) == [t |-> "list", n |-> 0, d |-> 1, e |-> s]

Arr(s) == [t |-> "Array", n |-> 0, d |-> 1, e |-> s]

Str(s) == [t |-> "str", n |-> 0, d |-> 1, e |-> s]

Chr(c) == [t |-> "chr", n |-> c, d |-> 1, e |-> <<>>]

IsArray(v) == v.t = "Array"

\* isinstance(v, Array.__baseIterables): list, range and tuple, and Array
\* itself, which inherits from list.
IsBase(v) == v.t \in {"list", "Array"}

\* isinstance(v, Iterable)
IsIterable(v) == v.t \in {"list", "Array", "str"}

\* isinstance(v, int): bool is a subclass of int.
IsInt(v) == v.t \in {"int", "bool"}

PyLen(v) == Len(v.e)

\* The elements an iteration over v yields; a str yields its characters
\* as strings of length one.
Items(v) == IF v.t = "str" THEN [i \in 1..Len(v.e) |-> Str(<<v.e[i]>>)] ELSE v.e

-----------------------------------------------------------------------------
(***************************************************************************)
(* Exceptions and results of calls.                                        *)
(***************************************************************************)
NoErr == [type |-> "none", msg |-> "", x |-> 0, y |-> 0]

Raise(type, msg) == [type |-> type, msg |-> msg, x |-> 0, y |-> 0]

\* An error whose message carries two sizes, in this order.
RaiseSize(type, msg, x, y) == [type |-> type, msg |-> msg, x |-> x, y |-> y]

Ok(v) == [err |-> NoErr, v |-> v]

Fail(err) == [err |-> err, v |-> None]

IsOk(r) == r.err.type = "none"

\* A thread that has not been started, or has exited when done is set; i is
\* the position in the Array of the element it maps next, acc the results.
NoThread(done) == [st |-> IF done THEN "exited" ELSE "none", i |-> 0, acc |-> <<>>]

\* A Future, or none before the submit.
Future(state, res) == [state |-> state, res |-> res]

\* No executor has been created.
NoPool ==
  /\ pc = "idle"
  /\ queue = <<>>
  /\ shutdown = FALSE
  /\ worker = NoThread(FALSE)
  /\ fut = Future("none", Ok(None))

-----------------------------------------------------------------------------
(***************************************************************************)
(* Construction and the conversion of nested lists.                        *)
(***************************************************************************)
RECURSIVE ArrayInit(_)

RECURSIVE Convert(_)

Convert(e) == IF IsBase(e) THEN ArrayInit(<<e>>) ELSE e

ArrayInit(args) ==
  LET a == IF Len(args) = 1 /\ IsIterable(args[1]) THEN Items(args[1]) ELSE args
  IN  IF \E i \in 1..Len(a) : IsBase(a[i])
      THEN Arr([i \in 1..Len(a) |-> Convert(a[i])])
      ELSE Arr(a)

\* Array(it) for an iterator it that yields the elements of s.
ArrayOf(s) == ArrayInit(<<List(s)>>)

-----------------------------------------------------------------------------
(***************************************************************************)
(* Python's list primitives, on 0-based positions.                         *)
(***************************************************************************)
Min2(a, b) == IF a < b THEN a ELSE b

Max2(a, b) == IF a > b THEN a ELSE b

\* One bound of slice.indices: v is the written bound (<<>> is None, <<n>>
\* is n), dflt the bound used for None, lower and upper the clipping range.
ClipBound(v, len, lower, upper, dflt) ==
  IF v = <<>> THEN dflt
  ELSE IF v[1] < 0 THEN Max2(v[1] + len, lower)
  ELSE Min2(v[1], upper)

\* slice(start, stop, step).indices(len) as <<start, stop, step>>, step # 0.
SliceIndices(s, len) ==
  LET step  == IF s[3] = <<>> THEN 1 ELSE s[3][1]
      lower == IF step < 0 THEN -1 ELSE 0
      upper == IF step < 0 THEN len - 1 ELSE len
  IN  << ClipBound(s[1], len, lower, upper, IF step < 0 THEN upper ELSE lower),
         ClipBound(s[2], len, lower, upper, IF step < 0 THEN lower ELSE upper),
         step >>

\* len(range(start, stop, step))
RangeLen(r) ==
  IF r[3] > 0
  THEN (IF r[2] > r[1] THEN (r[2] - r[1] + r[3] - 1) \div r[3] ELSE 0)
  ELSE (IF r[1] > r[2] THEN (r[1] - r[2] - r[3] - 1) \div (0 - r[3]) ELSE 0)

\* list(range(start, stop, step))
RangeSeq(r) == [j \in 1..RangeLen(r) |-> r[1] + (j - 1) * r[3]]

\* range(*s.indices(len)) as the sequence of its positions.
SliceRange(s, len) == RangeSeq(SliceIndices(s, len))

InRange(i, len) == (0 - len) <= i /\ i < len

\* The 1-based position of the element list index i names.
Pos(i, len) == IF i < 0 THEN i + len + 1 ELSE i + 1

\* list.__getitem__(i) for an integer i
ListGetInt(s, i) ==
  IF InRange(i, Len(s)) THEN Ok(s[Pos(i, Len(s))]) ELSE Fail(Raise("IndexError", "index out of range"))

\* list.__getitem__(sl) for a slice sl: the selected elements
ListGetSlice(s, sl) ==
  LET idx == SliceRange(sl, Len(s))
  IN  [j \in 1..Len(idx) |-> s[idx[j] + 1]]

\* list.__setitem__(i, v) for an integer i: the new elements or IndexError
ListSetInt(s, i, v) ==
  IF InRange(i, Len(s))
  THEN Ok(Arr([s EXCEPT ![Pos(i, Len(s))] = v]))
  ELSE Fail(Raise("IndexError", "index out of range"))

\* list.__setitem__(sl, vs) for a slice sl and the elements vs of an
\* iterable: a slice of step 1 is replaced by vs whatever their number, an
\* extended slice requires as many elements as it selects.
ListSetSlice(s, sl, vs) ==
  LET r   == SliceIndices(sl, Len(s))
      idx == RangeSeq(r)
      hi  == Max2(r[1], r[2])
  IN  IF r[3] = 1
      THEN Ok(Arr(SubSeq(s, 1, r[1]) \o vs \o SubSeq(s, hi + 1, Len(s))))
      ELSE IF Len(vs) # Len(idx)
      THEN Fail(RaiseSize("ValueError", "extended slice", Len(vs), Len(idx)))
      ELSE Ok(Arr([p \in 1..Len(s) |->
                     IF \E j \in 1..Len(idx) : idx[j] + 1 = p
                     THEN vs[CHOOSE j \in 1..Len(idx) : idx[j] + 1 = p]
                     ELSE s[p]]))

-----------------------------------------------------------------------------
(***************************************************************************)
(* Keys of __getitem__ and __setitem__: i is the value of an integer or a  *)
(* bool (0/1), s the <<start, stop, step>> of a slice (each <<>> for None  *)
(* or <<n>>), items the components of a sequence or of a tuple.  "other"   *)
(* is a key of any other type (None, a float, a str).                      *)
(***************************************************************************)
KInt(i) == [k |-> "int", i |-> i, s |-> <<>>, items |-> <<>>]

KBool(b) == [k |-> "bool", i |-> IF b THEN 1 ELSE 0, s |-> <<>>, items |-> <<>>]

KSlice(a, b, c) == [k |-> "slice", i |-> 0, s |-> <<a, b, c>>, items |-> <<>>]

KSeq(items) == [k |-> "seq", i |-> 0, s |-> <<>>, items |-> items]

KTuple(items) == [k |-> "tuple", i |-> 0, s |-> <<>>, items |-> items]

KOther == [k |-> "other", i |-> 0, s |-> <<>>, items |-> <<>>]

\* isinstance(key, int)
KIsInt(key) == key.k \in {"int", "bool"}

\* __validate_index: the key is accepted
ValidIndex(key) ==
  \/ key.k \in {"int", "bool", "slice"}
  \/ /\ key.k \in {"seq", "tuple"}
     /\ \A j \in 1..Len(key.items) : key.items[j].k \in {"bool", "int", "slice"}

InvalidIndex == Raise("TypeError", "invalid index")

TooMany == Raise("IndexError", "too many indices")

\* The error of the first failed result of a sequence of results, which is
\* the one an in-order evaluation raises.
FirstErr(rs) ==
  IF \E j \in 1..Len(rs) : ~IsOk(rs[j])
  THEN rs[CHOOSE j \in 1..Len(rs) :
            ~IsOk(rs[j]) /\ \A h \in 1..(j - 1) : IsOk(rs[h])].err
  ELSE NoErr

\* A TypeError caught by "except TypeError" is raised again as IndexError.
CatchTypeError(err) == IF err.type = "TypeError" THEN TooMany ELSE err

-----------------------------------------------------------------------------
(***************************************************************************)
(* Array.__getitem__                                                       *)
(***************************************************************************)
RECURSIVE GetItem(_, _)

\* v[key] for a tuple key: only an Array accepts a tuple.
SubscriptTuple(v, key) ==
  IF IsArray(v) THEN GetItem(v.e, key) ELSE Fail(Raise("TypeError", "not subscriptable"))

\* super().__getitem__(item) for one item of a sequence key
ListGet(s, item) ==
  IF item.k = "slice" THEN Ok(List(ListGetSlice(s, item.s))) ELSE ListGetInt(s, item.i)

RECURSIVE MaskPositionsFromOne(_, _)

\* MaskPositions that counts the positions from 1.
MaskPositionsFromOne(items, j) ==
  IF j > Len(items) THEN <<>>
  ELSE (IF items[j].i = 1 THEN <<KInt(j)>> ELSE <<>>) \o MaskPositionsFromOne(items, j + 1)

\* The positions a key of booleans selects, in increasing order.
RECURSIVE MaskPositions(_, _)

MaskPositions(items, j) ==
  IF j > Len(items) THEN <<>>
  ELSE (IF items[j].i = 1 THEN <<KInt(j - 1)>> ELSE <<>>) \o MaskPositions(items, j + 1)

\* The part of __getitem__ for a key that is a sequence and not a tuple.
GetSeq(s, items) ==
  LET mask == \A j \in 1..Len(items) : items[j].k = "bool"
      sel  == IF mask THEN MaskPositions(items, 1) ELSE items
      rs   == [j \in 1..Len(sel) |-> ListGet(s, sel[j])]
  IN  IF mask /\ Len(items) # Len(s)
      THEN Fail(RaiseSize("IndexError", "boolean size", Len(s), Len(items)))
      ELSE IF FirstErr(rs) # NoErr THEN Fail(FirstErr(rs))
      ELSE Ok(ArrayOf([j \in 1..Len(rs) |-> rs[j].v]))

\* GetRows that returns the selected rows without applying the rest of the
\* key to them.
GetRowsWhole(s, first, rest) == Ok(ArrayOf(ListGetSlice(s, first.s)))

\* The part of __getitem__ for a tuple of two or more components whose
\* first component is a slice.
GetRows(s, first, rest) ==
  LET rows == ListGetSlice(s, first.s)
      rs   == [j \in 1..Len(rows) |-> SubscriptTuple(rows[j], rest)]
  IN  IF FirstErr(rs) # NoErr THEN Fail(CatchTypeError(FirstErr(rs)))
      ELSE Ok(ArrayOf([j \in 1..Len(rs) |-> rs[j].v]))

\* self[key] for an Array of elements s.
GetItem(s, key) ==
  IF ~ValidIndex(key) THEN Fail(InvalidIndex)
  ELSE IF key.k = "tuple" /\ Len(key.items) = 0
  THEN Fail(Raise("IndexError", "index out of range"))
  ELSE IF key.k = "tuple" /\ Len(key.items) > 1
  THEN LET first == key.items[1]
           rest  == KTuple(Tail(key.items))
       IN  IF KIsInt(first)
           THEN LET r == GetItem(s, first)
                IN  IF IsOk(r) THEN SubscriptTuple(r.v, rest) ELSE r
           ELSE GetRows(s, first, rest)
  ELSE LET k == IF key.k = "tuple" THEN key.items[1] ELSE key
       IN  IF KIsInt(k) THEN ListGetInt(s, k.i)
           ELSE IF k.k = "slice" THEN Ok(ArrayOf(ListGetSlice(s, k.s)))
           ELSE GetSeq(s, k.items)

-----------------------------------------------------------------------------
(***************************************************************************)
(* Array.__setitem__.  The result holds the Array as the call leaves it,   *)
(* also when the call raises.                                              *)
(***************************************************************************)
After(err, s) == [err |-> err, v |-> Arr(s)]

\* __validate_setelem(i, e) for a key of n positions: the error it raises
ValidateSetelem(n, e) ==
  IF IsIterable(e) /\ n # PyLen(e)
  THEN RaiseSize("ValueError", "assign size", n, PyLen(e))
  ELSE NoErr

\* The j-th value the iterator returned by __validate_setelem yields:
\* iter(e) for an iterable, itertools.repeat(e) for a scalar.
SetelemAt(e, j) == IF IsIterable(e) THEN Items(e)[j] ELSE e

\* super().__setitem__(item, v) for one item of a sequence key
ListSet(s, item, v) ==
  IF item.k = "slice"
  THEN (IF IsIterable(v) THEN ListSetSlice(s, item.s, Items(v))
        ELSE Fail(Raise("TypeError", "can only assign an iterable")))
  ELSE ListSetInt(s, item.i, v)

\* The loop of __setitem__ over a sequence key, from its j-th item on.
RECURSIVE SetSeqFrom(_, _, _, _)

SetSeqFrom(s, items, e, j) ==
  IF j > Len(items) THEN After(NoErr, s)
  ELSE LET r == ListSet(s, items[j], SetelemAt(e, j))
       IN  IF IsOk(r) THEN SetSeqFrom(r.v.e, items, e, j + 1) ELSE After(r.err, s)

\* The part of __setitem__ for a key that is a sequence and not a tuple.
SetSeq(s, items, e) ==
  IF ValidateSetelem(Len(items), e) # NoErr
  THEN After(ValidateSetelem(Len(items), e), s)
  ELSE SetSeqFrom(s, items, e, 1)

\* SetSlice that assigns a scalar once instead of once per selected position.
SetSliceOnce(s, sl, e) ==
  LET vs == IF IsIterable(e) THEN Items(Convert(e)) ELSE <<e>>
      r  == ListSetSlice(s, sl, vs)
  IN  IF IsOk(r) THEN r ELSE After(r.err, s)

\* The part of __setitem__ for a slice key.
SetSlice(s, sl, e) ==
  LET vs == IF IsIterable(e) THEN Items(Convert(e))
            ELSE [j \in 1..Len(SliceRange(sl, Len(s))) |-> e]
      r  == ListSetSlice(s, sl, vs)
  IN  IF IsOk(r) THEN r ELSE After(r.err, s)

RECURSIVE SetItem(_, _, _)

\* v[key] = e for a tuple key: only an Array accepts a tuple.  The result
\* holds v as the assignment leaves it.
AssignTuple(v, key, e) ==
  IF IsArray(v) THEN SetItem(v.e, key, e)
  ELSE [err |-> Raise("TypeError", "no item assignment"), v |-> v]

\* The second loop of __setitem__ over the rows idx a leading slice
\* selects, from the j-th row on: self[ic][key[1:]] = ie.
RECURSIVE SetRowsFrom(_, _, _, _, _)

SetRowsFrom(s, idx, rest, e, j) ==
  IF j > Len(idx) THEN After(NoErr, s)
  ELSE LET p == idx[j] + 1
           r == AssignTuple(s[p], rest, SetelemAt(e, j))
           t == [s EXCEPT ![p] = r.v]
       IN  IF IsOk(r) THEN SetRowsFrom(t, idx, rest, e, j + 1) ELSE After(r.err, t)

\* The part of __setitem__ for a tuple of two or more components whose
\* first component is a slice: a pass that reads every target, the check of
\* the number of values, then the assignments.
SetRows(s, first, rest, e) ==
  LET idx   == SliceRange(first.s, Len(s))
      reads == [j \in 1..Len(idx) |-> SubscriptTuple(s[idx[j] + 1], rest)]
      w     == SetRowsFrom(s, idx, rest, e, 1)
  IN  IF FirstErr(reads) # NoErr THEN After(CatchTypeError(FirstErr(reads)), s)
      ELSE IF ValidateSetelem(Len(idx), e) # NoErr
      THEN After(ValidateSetelem(Len(idx), e), s)
      ELSE [err |-> CatchTypeError(w.err), v |-> w.v]

\* self[key] = e for an Array of elements s.
SetItem(s, key, e) ==
  IF ~ValidIndex(key) THEN After(InvalidIndex, s)
  ELSE IF key.k = "tuple" /\ Len(key.items) = 0
  THEN After(Raise("IndexError", "index out of range"), s)
  ELSE IF key.k = "tuple" /\ Len(key.items) > 1
  THEN LET first == key.items[1]
           rest  == KTuple(Tail(key.items))
       IN  IF KIsInt(first)
           THEN LET g == GetItem(s, first)
                    r == AssignTuple(g.v, rest, e)
                IN  IF IsOk(g)
                    THEN [err |-> r.err,
                          v   |-> Arr([s EXCEPT ![Pos(first.i, Len(s))] = r.v])]
                    ELSE After(g.err, s)
           ELSE SetRows(s, first, rest, e)
  ELSE LET k == IF key.k = "tuple" THEN key.items[1] ELSE key
       IN  IF KIsInt(k)
           THEN LET r == ListSetInt(s, k.i, Convert(e))
                IN  IF IsOk(r) THEN r ELSE After(r.err, s)
           ELSE IF k.k = "seq" THEN SetSeq(s, k.items, e)
           ELSE SetSlice(s, k.s, e)

-----------------------------------------------------------------------------
(***************************************************************************)
(* The mutating methods other than __setitem__.                            *)
(***************************************************************************)
\* append(e)
ArrayAppend(s, e) == After(NoErr, Append(s, Convert(e)))

\* prepend(e)
ArrayPrepend(s, e) == After(NoErr, <<Convert(e)>> \o s)

\* list.insert(i, v): the position is clipped to the ends of the list.
ListInsert(s, i, v) ==
  LET n == IF i < 0 THEN Max2(i + Len(s), 0) ELSE Min2(i, Len(s))
  IN  SubSeq(s, 1, n) \o <<v>> \o SubSeq(s, n + 1, Len(s))

\* The loop of insert over a sequence of positions, from the j-th on.
RECURSIVE InsertFrom(_, _, _, _)

\* insert(i, e) for an integer key or a sequence of integers i
ArrayInsert(s, i, e) ==
  IF IsBase(e) /\ i.k = "seq"
  THEN (IF PyLen(e) # Len(i.items)
        THEN After(RaiseSize("ValueError", "lengths must match", Len(i.items), PyLen(e)), s)
        ELSE InsertFrom(s, i.items, e.e, 1))
  ELSE IF KIsInt(i) THEN After(NoErr, ListInsert(s, i.i, Convert(e)))
  ELSE After(Raise("TypeError", "not an integer"), s)

InsertFrom(s, items, es, j) ==
  IF j > Len(items) THEN After(NoErr, s)
  ELSE LET r == ArrayInsert(s, items[j], es[j])
       IN  IF IsOk(r) THEN InsertFrom(r.v.e, items, es, j + 1) ELSE r

\* extend(e)
ArrayExtend(s, e) == After(NoErr, s \o ArrayInit(<<e>>).e)

\* extendLeft(e)
ArrayExtendLeft(s, e) == SetItem(s, KSlice(<<0>>, <<0>>, <<>>), ArrayInit(<<e>>))

\* self += b
ArrayIAdd(s, b) ==
  IF IsBase(b) THEN After(NoErr, s \o b.e)
  ELSE After(Raise("TypeError", "can not concatenate"), s)

-----------------------------------------------------------------------------
(***************************************************************************)
(* Element-wise operations.  The operators are modelled on int and bool    *)
(* operands; true division and negative powers give a float, held as a     *)
(* reduced fraction.                                                       *)
(***************************************************************************)
Abs(n) == IF n < 0 THEN 0 - n ELSE n

RECURSIVE Gcd(_, _)

Gcd(a, b) == IF b = 0 THEN a ELSE Gcd(b, a % b)

\* The float n / d, d # 0.
Float(n, d) ==
  LET g == Gcd(Abs(n), Abs(d))
      sg == IF d < 0 THEN -1 ELSE 1
  IN  [t |-> "float", n |-> sg * (n \div g), d |-> sg * (d \div g), e |-> <<>>]

\* Python's x % y on integers, y # 0: the sign of the result is that of y.
PyMod(x, y) == IF y > 0 THEN x % y ELSE 0 - ((0 - x) % (0 - y))

RECURSIVE BitAnd(_, _)

\* x & y on integers of any sign
BitAnd(x, y) ==
  IF x = 0 \/ y = 0 THEN 0
  ELSE IF x = -1 THEN y
  ELSE IF y = -1 THEN x
  ELSE (x % 2) * (y % 2) + 2 * BitAnd(x \div 2, y \div 2)

RECURSIVE BitOr(_, _)

\* x | y on integers of any sign
BitOr(x, y) ==
  IF x = 0 THEN y
  ELSE IF y = 0 THEN x
  ELSE IF x = -1 \/ y = -1 THEN -1
  ELSE Max2(x % 2, y % 2) + 2 * BitOr(x \div 2, y \div 2)

RECURSIVE IntPow(_, _)

\* x ** y on integers, y >= 0; 0 ** 0 is 1.
IntPow(x, y) == IF y = 0 THEN 1 ELSE x * IntPow(x, y - 1)

ZeroDivision == Raise("ZeroDivisionError", "division by zero")

Comparisons == {"gt", "ge", "lt", "le", "eq", "ne"}

\* The operators of the element-wise methods.
Operators == {"add", "sub", "mul", "truediv", "pow", "mod", "and_", "or_"} \cup Comparisons

\* operator.f(x, y)
OpApply(f, x, y) ==
  IF ~(IsInt(x) /\ IsInt(y)) THEN Fail(Raise("TypeError", "unsupported operand"))
  ELSE LET a == x.n
           b == y.n
           bools == x.t = "bool" /\ y.t = "bool"
       IN  CASE f = "add" -> Ok(PInt(a + b))
             [] f = "sub" -> Ok(PInt(a - b))
             [] f = "mul" -> Ok(PInt(a * b))
             [] f = "truediv" -> IF b = 0 THEN Fail(ZeroDivision) ELSE Ok(Float(a, b))
             [] f = "pow" -> IF b >= 0 THEN Ok(PInt(IntPow(a, b)))
                             ELSE IF a = 0 THEN Fail(ZeroDivision)
                             ELSE Ok(Float(1, IntPow(a, 0 - b)))
             [] f = "mod" -> IF b = 0 THEN Fail(ZeroDivision) ELSE Ok(PInt(PyMod(a, b)))
             [] f = "and_" -> Ok(IF bools THEN PBool(BitAnd(a, b) = 1) ELSE PInt(BitAnd(a, b)))
             [] f = "or_" -> Ok(IF bools THEN PBool(BitOr(a, b) = 1) ELSE PInt(BitOr(a, b)))
             [] f = "gt" -> Ok(PBool(a > b))
             [] f = "ge" -> Ok(PBool(a >= b))
             [] f = "lt" -> Ok(PBool(a < b))
             [] f = "le" -> Ok(PBool(a <= b))
             [] f = "eq" -> Ok(PBool(a = b))
             [] f = "ne" -> Ok(PBool(a # b))

\* ValidateSeq that accepts a sequence shorter than the receiver.
ValidateSeqLonger(s, e) ==
  IF PyLen(e) > Len(s)
  THEN RaiseSize("ValueError", "lengths must match", Len(s), PyLen(e))
  ELSE NoErr

\* __validate_seq(e): the error it raises
ValidateSeq(s, e) ==
  IF PyLen(e) # Len(s)
  THEN RaiseSize("ValueError", "lengths must match", Len(s), PyLen(e))
  ELSE NoErr

\* MapOp with the operands of f exchanged.
MapOpSwapped(f, xs, ys) ==
  LET rs == [i \in 1..Min2(Len(xs), Len(ys)) |-> OpApply(f, ys[i], xs[i])]
  IN  IF FirstErr(rs) # NoErr THEN Fail(FirstErr(rs))
      ELSE Ok(ArrayOf([i \in 1..Len(rs) |-> rs[i].v]))

\* Array(map(f, xs, ys)): map stops with the shorter of its arguments.
MapOp(f, xs, ys) ==
  LET rs == [i \in 1..Min2(Len(xs), Len(ys)) |-> OpApply(f, xs[i], ys[i])]
  IN  IF FirstErr(rs) # NoErr THEN Fail(FirstErr(rs))
      ELSE Ok(ArrayOf([i \in 1..Len(rs) |-> rs[i].v]))

\* __operate(f, e)
Operate(s, f, e) ==
  IF IsIterable(e)
  THEN (IF ValidateSeq(s, e) # NoErr THEN Fail(ValidateSeq(s, e))
        ELSE MapOp(f, s, Items(e)))
  ELSE MapOp(f, s, [i \in 1..Len(s) |-> e])

\* The in-place form add_, sub_, ...: self[:] = self.__operate(f, e)
OperateInplace(s, f, e) ==
  LET r == Operate(s, f, e)
  IN  IF IsOk(r) THEN SetItem(s, KSlice(<<>>, <<>>, <<>>), r.v) ELSE After(r.err, s)

-----------------------------------------------------------------------------
(***************************************************************************)
(* Array.equal and the equality of elements.                               *)
(***************************************************************************)
IsNum(v) == v.t \in {"int", "bool", "float"}

RECURSIVE PyEq(_, _)

\* Array.__eq__(y) for an Array of elements xs: __operate(operator.eq, y)
ArrayEq(xs, y) ==
  LET ys == IF IsIterable(y) THEN Items(y) ELSE [i \in 1..Len(xs) |-> y]
      rs == [i \in 1..Len(xs) |-> PyEq(xs[i], ys[i])]
  IN  IF IsIterable(y) /\ ValidateSeq(xs, y) # NoErr THEN Fail(ValidateSeq(xs, y))
      ELSE IF FirstErr(rs) # NoErr THEN Fail(FirstErr(rs))
      ELSE Ok(ArrayOf([i \in 1..Len(rs) |-> rs[i].v]))

\* operator.eq(x, y): an Array compares element-wise, also as the right
\* operand of a value that does not know how to compare with it; numbers
\* compare by value; values of other types compare by type and contents.
\* x is never a raw list, since the elements of the receiver are converted.
PyEq(x, y) ==
  IF IsArray(x) THEN ArrayEq(x.e, y)
  ELSE IF IsArray(y) THEN ArrayEq(y.e, x)
  ELSE IF IsNum(x) /\ IsNum(y) THEN Ok(PBool(x.n * y.d = y.n * x.d))
  ELSE Ok(PBool(x = y))

RECURSIVE Truthy(_)

\* bool(v): Array.__bool__ is all(self); a number is true unless zero, any
\* other container unless empty.
Truthy(v) ==
  IF IsArray(v) THEN \A i \in 1..Len(v.e) : Truthy(v.e[i])
  ELSE IF IsNum(v) THEN v.n # 0
  ELSE IF v.t \in {"list", "str"} THEN Len(v.e) > 0
  ELSE v.t # "None"

NoLen == Raise("TypeError", "has no len()")

\* equal(b): __validate_seq(b), then all(self.eq(b))
EqualTo(s, b) ==
  IF ~IsIterable(b) THEN Fail(NoLen)
  ELSE IF ValidateSeq(s, b) # NoErr THEN Fail(ValidateSeq(s, b))
  ELSE LET r == ArrayEq(s, b)
       IN  IF IsOk(r) THEN Ok(PBool(\A i \in 1..Len(r.v.e) : Truthy(r.v.e[i]))) ELSE r

-----------------------------------------------------------------------------
(***************************************************************************)
(* Array.sortBy and Array.sort.  A key function is named: "id" is          *)
(* lambda x: x, "mod2" is lambda x: x % 2, "neg" is lambda x: -x.  The     *)
(* keys are modelled on int and bool elements.                             *)
(***************************************************************************)
KeyFuns == {"id", "mod2", "neg"}

\* l(x) for an int or bool x
KeyOf(l, x) ==
  CASE l = "id" -> x.n
    [] l = "mod2" -> PyMod(x.n, 2)
    [] l = "neg" -> 0 - x.n

\* x is placed before y: its key is smaller, or larger if reverse is set.
Before(x, y, l, reverse) ==
  IF reverse THEN KeyOf(l, x) > KeyOf(l, y) ELSE KeyOf(l, x) < KeyOf(l, y)

\* The sorted sequence r with x placed after every element it is not
\* placed before.
InsertSorted(r, x, l, reverse) ==
  LET n == Cardinality({j \in 1..Len(r) : ~Before(x, r[j], l, reverse)})
  IN  SubSeq(r, 1, n) \o <<x>> \o SubSeq(r, n + 1, Len(r))

Reversed(s) == [j \in 1..Len(s) |-> s[Len(s) + 1 - j]]

RECURSIVE Sorted(_, _, _)

\* sorted(s, key=l, reverse=reverse): the sort is stable whatever reverse.
Sorted(s, l, reverse) ==
  IF s = <<>> THEN <<>>
  ELSE InsertSorted(Sorted(SubSeq(s, 1, Len(s) - 1), l, reverse), s[Len(s)], l, reverse)

\* SortedBy that sorts in ascending order and reverses the result when
\* reverse is set.
SortedReversing(s, l, reverse) ==
  IF reverse THEN Reversed(Sorted(s, l, FALSE)) ELSE Sorted(s, l, FALSE)

\* The call sorted(self, key=l, reverse=reverse) of sortBy and sort.
SortedBy(s, l, reverse) == Sorted(s, l, reverse)

\* sortBy(l, reverse)
SortBy(s, l, reverse) ==
  IF \A i \in 1..Len(s) : IsInt(s[i])
  THEN Ok(ArrayOf(SortedBy(s, l, reverse)))
  ELSE Fail(Raise("TypeError", "unsupported operand"))

\* sort(reverse=reverse): sorted(self, reverse=reverse)
SortPlain(s, reverse) == SortBy(s, "id", reverse)

-----------------------------------------------------------------------------
(***************************************************************************)
(* Array.split, on one-dimensional Arrays of scalars, whose elements       *)
(* compare with the delimiter without raising.                             *)
(***************************************************************************)
\* x == c is true
Equals(x, c) == IsOk(PyEq(x, c)) /\ Truthy(PyEq(x, c).v)

\* The property unsqueeze: Array([self])
Unsqueeze(s) == ArrayInit(<<List(<<Arr(s)>>)>>)

\* v after v.append(e) for every non-empty e of es from the j-th on.
RECURSIVE AppendNonEmpty(_, _, _)

AppendNonEmpty(v, es, j) ==
  IF j > Len(es) THEN v
  ELSE AppendNonEmpty(IF PyLen(es[j]) # 0 THEN ArrayAppend(v, es[j]).v.e ELSE v, es, j + 1)

RECURSIVE Split(_, _)

\* split(c): self.index(c) raises ValueError when no element equals c.
Split(s, c) ==
  IF \A p \in 1..Len(s) : ~Equals(s[p], c) THEN Unsqueeze(s)
  ELSE LET p == CHOOSE q \in 1..Len(s) :
                  Equals(s[q], c) /\ \A h \in 1..(q - 1) : ~Equals(s[h], c)
           i == p - 1
           v == IF i # 0
                THEN Unsqueeze(GetItem(s, KSlice(<<>>, <<i>>, <<>>)).v.e).e
                ELSE <<>>
           r == Split(GetItem(s, KSlice(<<i + 1>>, <<>>, <<>>)).v.e, c)
       IN  Arr(AppendNonEmpty(v, r.e, 1))

-----------------------------------------------------------------------------
(***************************************************************************)
(* Array.removeByIndex and Array.removeByIndex_                            *)
(***************************************************************************)
\* list.pop(i) for a value i: the remaining elements, or the error raised.
ListPop(s, i) ==
  IF ~IsInt(i) THEN After(Raise("TypeError", "not an integer"), s)
  ELSE IF ~InRange(i.n, Len(s)) THEN After(Raise("IndexError", "pop index out of range"), s)
  ELSE After(NoErr, SubSeq(s, 1, Pos(i.n, Len(s)) - 1) \o SubSeq(s, Pos(i.n, Len(s)) + 1, Len(s)))

\* The loop "for i in b: a.pop(i - c); c += 1" from the j-th item of b on,
\* where c is j - 1.
RECURSIVE PopFrom(_, _, _)

PopFrom(s, items, j) ==
  IF j > Len(items) THEN After(NoErr, s)
  ELSE IF ~IsInt(items[j]) THEN After(Raise("TypeError", "not an integer"), s)
  ELSE LET r == ListPop(s, PInt(items[j].n - (j - 1)))
       IN  IF IsOk(r) THEN PopFrom(r.v.e, items, j + 1) ELSE r

\* removeByIndex_(b): the receiver as the call leaves it
RemoveByIndexInplace(s, b) ==
  IF IsIterable(b) THEN PopFrom(s, Items(b), 1) ELSE ListPop(s, b)

\* removeByIndex(b): the same on a copy of the receiver
RemoveByIndex(s, b) ==
  LET r == RemoveByIndexInplace(ArrayOf(s).e, b)
  IN  IF IsOk(r) THEN Ok(r.v) ELSE Fail(r.err)

-----------------------------------------------------------------------------
(***************************************************************************)
(* The property Array.flatten                                              *)
(***************************************************************************)
RECURSIVE Chain(_, _)

\* The elements e of "for s in v for e in (s if isinstance(s, Iterable)
\* else [s])", from the p-th element of v on.
Chain(v, p) ==
  IF p > Len(v) THEN <<>>
  ELSE (IF IsIterable(v[p]) THEN Items(v[p]) ELSE <<v[p]>>) \o Chain(v, p + 1)

RECURSIVE Flatten(_, _)

\* flatten, called at the given depth of recursion: it calls itself on the
\* Array of the chained elements as long as one of them is Iterable.
Flatten(s, depth) ==
  IF depth > MaxDepth THEN Fail(Raise("RecursionError", "maximum recursion depth exceeded"))
  ELSE LET r == ArrayOf(Chain(s, 1))
       IN  IF \E i \in 1..Len(r.e) : IsIterable(r.e[i])
           THEN Flatten(r.e, depth + 1)
           ELSE Ok(r)

-----------------------------------------------------------------------------
(***************************************************************************)
(* The inputs explored.  An Array under test is built by the constructor   *)
(* from a list whose scalars are numbered 1, 2, ... in reading order, so   *)
(* that every position holds a value of its own; the values written start  *)
(* at 90.                                                                  *)
(***************************************************************************)
\* A shape is a sequence of entries: -1 for a scalar, n >= 0 for a list of
\* n scalars.
EntrySize(n) == IF n < 0 THEN 1 ELSE n

RECURSIVE ShapeSize(_)

ShapeSize(shape) ==
  IF shape = <<>> THEN 0 ELSE EntrySize(Head(shape)) + ShapeSize(Tail(shape))

\* The list of the given shape whose scalars are base + 1, base + 2, ...
Numbered(shape, base) ==
  List([i \in 1..Len(shape) |->
          LET off == base + ShapeSize(SubSeq(shape, 1, i - 1))
          IN  IF shape[i] < 0 THEN PInt(off + 1)
              ELSE List([j \in 1..shape[i] |-> PInt(off + j)])])

SeqsUpTo(S, n) == UNION {[1..m -> S] : m \in 0..n}

Shapes ==
  SeqsUpTo(-1..MaxRow, MaxLen) \cup {[i \in 1..m |-> -1] : m \in 0..MaxFlat}

\* The example of the documentation: Array(Array(1, 2, 3), Array(4, 5, 6)).
ExampleShape == <<3, 3>>

InitArrays == {ArrayInit(<<Numbered(shape, 0)>>) : shape \in Shapes \cup {ExampleShape}}

OptIdx == {<<>>} \cup {<<i>> : i \in (-1)..MaxLen}

OptStep == {<<>>, <<2>>, <<-1>>}

IntKeys == {KInt(i) : i \in (0 - MaxLen - 1)..MaxLen}

SliceKeys == {KSlice(a, b, c) : a \in OptIdx, b \in OptIdx, c \in OptStep}

All == KSlice(<<>>, <<>>, <<>>)

\* The components of the tuple keys.
Comps ==
  {KInt(0), KInt(1), KInt(-1), KInt(MaxRow), All, KSlice(<<0>>, <<2>>, <<>>),
   KSlice(<<1>>, <<>>, <<>>), KSlice(<<>>, <<>>, <<2>>), KSlice(<<>>, <<>>, <<-1>>)}

TupleKeys ==
  {KTuple(t) : t \in SeqsUpTo(Comps, 2)}
    \cup {KTuple(<<a, b, KInt(0)>>) : a \in {KInt(0), All}, b \in {KInt(0), All}}

IntSeqKeys ==
  {KSeq(t) : t \in SeqsUpTo({KInt(0), KInt(1), KInt(-1), KInt(MaxLen)}, MaxKeyLen)}

MaskKeys ==
  {KSeq(t) : t \in SeqsUpTo({KBool(TRUE), KBool(FALSE)}, MaxLen + 1)}

\* Keys that __validate_index rejects.
BadKeys == {KOther, KSeq(<<KOther>>), KTuple(<<All, KSeq(<<KInt(0)>>)>>)}

\* Tuple keys whose first component is a sequence of integers or a mask.
TupleSeqKeys ==
  {KTuple(<<KSeq(s), c>>) :
     s \in {<<KInt(0)>>, <<KInt(1), KInt(0)>>, <<KBool(FALSE), KBool(TRUE)>>},
     c \in {KInt(0), All}}

Keys ==
  IntKeys \cup SliceKeys \cup TupleKeys \cup IntSeqKeys \cup MaskKeys \cup BadKeys
    \cup TupleSeqKeys

\* The values assigned: a scalar, lists of 0..MaxRow+1 scalars, and lists of
\* up to MaxLen rows of n scalars whose last row has n or n + 1 scalars.
Scalar == PInt(90)

FlatVals == {Numbered([i \in 1..n |-> -1], 90) : n \in 0..(MaxRow + 1)}

NestedVals ==
  {Numbered([i \in 1..m |-> IF i = m THEN k ELSE n], 90) :
     m \in 1..MaxLen, n \in 1..MaxRow, k \in 1..(MaxRow + 1)}

\* The character strings "a" and "ab".
StrVals == {Str(<<Chr(1)>>), Str(<<Chr(1), Chr(2)>>)}

Vals ==
  {Scalar} \cup FlatVals \cup NestedVals \cup {ArrayInit(<<v>>) : v \in FlatVals}
    \cup StrVals

-----------------------------------------------------------------------------
(***************************************************************************)
(* The state machine.  arr is the Array under test, old its contents       *)
(* before the last call, call the last call and out its outcome.  A        *)
(* behaviour constructs an Array and makes one call on it.                 *)
(***************************************************************************)
NoKey == KOther

\* A call of the method op with the key and the value it is given; f is the
\* operator of an element-wise operation.
Call(op, key, e) == [op |-> op, f |-> "", key |-> key, e |-> e]

OpCall(op, f, e) == [op |-> op, f |-> f, key |-> NoKey, e |-> e]

\* The Array has been constructed and no method has been called on it.
Fresh == call.op = "new"

Init ==
  /\ NoPool
  /\ arr \in InitArrays
  /\ old = arr
  /\ call = Call("new", NoKey, None)
  /\ out = Ok(None)

\* A call op(key, e) that leaves the Array as r.v and raises r.err.
Mutate(op, key, e, r) ==
  /\ arr' = r.v
  /\ old' = arr
  /\ call' = Call(op, key, e)
  /\ out' = [err |-> r.err, v |-> None]
  /\ UNCHANGED pool

SetItemCall ==
  /\ Fresh
  /\ \E key \in Keys, e \in Vals : Mutate("setitem", key, e, SetItem(arr.e, key, e))

AppendCall ==
  /\ Fresh
  /\ \E e \in Vals : Mutate("append", NoKey, e, ArrayAppend(arr.e, e))

PrependCall ==
  /\ Fresh
  /\ \E e \in Vals : Mutate("prepend", NoKey, e, ArrayPrepend(arr.e, e))

InsertCall ==
  /\ Fresh
  /\ \E i \in IntKeys \cup IntSeqKeys, e \in Vals : Mutate("insert", i, e, ArrayInsert(arr.e, i, e))

ExtendCall ==
  /\ Fresh
  /\ \E e \in Vals : Mutate("extend", NoKey, e, ArrayExtend(arr.e, e))

ExtendLeftCall ==
  /\ Fresh
  /\ \E e \in Vals : Mutate("extendLeft", NoKey, e, ArrayExtendLeft(arr.e, e))

IAddCall ==
  /\ Fresh
  /\ \E b \in Vals : Mutate("iadd", NoKey, b, ArrayIAdd(arr.e, b))

Next ==
  \/ SetItemCall
  \/ AppendCall
  \/ PrependCall
  \/ InsertCall
  \/ ExtendCall
  \/ ExtendLeftCall
  \/ IAddCall

Spec == Init /\ [][Next]_vars

\* The arguments of the constructor that hold a character string.
StrArgs ==
  UNION {{<<s>>, <<s, PInt(1)>>, <<PInt(1), s>>, <<List(<<PInt(1), PInt(2)>>), s>>} :
           s \in StrVals}

\* Array(*args) for arguments with a character string; call.e holds them.
InitStr ==
  \E args \in StrArgs :
    /\ NoPool
    /\ arr = ArrayInit(args)
    /\ old = arr
    /\ call = Call("new", NoKey, List(args))
    /\ out = Ok(None)

\* A behaviour of SpecStr constructs an Array from such arguments and makes
\* one mutating call on it.
SpecStr == InitStr /\ [][Next]_vars

-----------------------------------------------------------------------------
(***************************************************************************)
(* Reads: a behaviour of SpecGet constructs an Array and reads it once.    *)
(***************************************************************************)
GetItemCall ==
  /\ Fresh
  /\ \E key \in Keys :
       /\ out' = GetItem(arr.e, key)
       /\ call' = Call("getitem", key, None)
       /\ old' = arr
       /\ arr' = arr
       /\ UNCHANGED pool

NextGet == GetItemCall

SpecGet == Init /\ [][NextGet]_vars

-----------------------------------------------------------------------------
(***************************************************************************)
(* Element-wise operations: a behaviour of SpecOp constructs a             *)
(* one-dimensional Array of integers and booleans and operates on it once. *)
(***************************************************************************)
OpElems == {PInt(-3), PInt(0), PInt(2), PBool(TRUE)}

OpArrays == {ArrayInit(<<List(s)>>) : s \in SeqsUpTo(OpElems, MaxOpLen)}

OpScalars == {PInt(-2), PInt(0), PInt(3), PBool(FALSE)}

OpSeqs == {List(s) : s \in SeqsUpTo({PInt(-1), PInt(0), PInt(2)}, MaxOpLen + 1)}

Operands == OpScalars \cup OpSeqs \cup {Arr(<<PBool(TRUE), PInt(5)>>)}

InitOp ==
  /\ NoPool
  /\ arr \in OpArrays
  /\ old = arr
  /\ call = Call("new", NoKey, None)
  /\ out = Ok(None)

\* add(e), sub(e), ..., and the operators >, >=, <, <=, ==, !=, &, |
OperateCall ==
  /\ Fresh
  /\ \E f \in Operators, e \in Operands :
       /\ out' = Operate(arr.e, f, e)
       /\ call' = OpCall("operate", f, e)
       /\ old' = arr
       /\ arr' = arr
       /\ UNCHANGED pool

\* add_(e), sub_(e), ...
OperateInplaceCall ==
  /\ Fresh
  /\ \E f \in Operators, e \in Operands :
       LET r == OperateInplace(arr.e, f, e)
       IN  /\ out' = [err |-> r.err, v |-> None]
           /\ call' = OpCall("operate_", f, e)
           /\ old' = arr
           /\ arr' = r.v
           /\ UNCHANGED pool

NextOp ==
  \/ OperateCall
  \/ OperateInplaceCall

SpecOp == InitOp /\ [][NextOp]_vars

-----------------------------------------------------------------------------
(***************************************************************************)
(* The other methods: a behaviour of SpecFn constructs an Array and calls  *)
(* one of equal, sortBy, sort, split, removeByIndex, removeByIndex_ and     *)
(* flatten on it.                                                          *)
(***************************************************************************)
\* The operands of equal: the lists of the shapes of the Arrays under test
\* with the same scalars or with each scalar one larger, the Arrays built
\* from them, and a scalar.
EqOperands ==
  {Numbered(shape, base) : shape \in Shapes, base \in {0, 1}}
    \cup {ArrayInit(<<Numbered(shape, 0)>>) : shape \in Shapes}
    \cup {Scalar}

\* The one-dimensional Arrays of integers and booleans: 1 and True are
\* equal and have equal keys.
FlatElems == {PInt(1), PInt(2), PInt(3), PBool(TRUE)}

FlatArrays == {ArrayOf(s) : s \in SeqsUpTo(FlatElems, MaxFlat)}

\* Arrays of numbers, character strings and lists of them, and two Arrays
\* of ragged depth.
Leaf == {PInt(1), PInt(2), Str(<<Chr(1)>>)}

RaggedArrays ==
  {ArrayOf(s) : s \in SeqsUpTo(Leaf \cup {List(x) : x \in SeqsUpTo(Leaf, 2)}, MaxLen)}
    \cup {ArrayInit(<<List(<<PInt(1), List(<<PInt(2), List(<<PInt(3)>>)>>)>>), PInt(4)>>),
          ArrayInit(<<List(<<List(<<>>)>>), Str(<<Chr(1), Chr(2)>>)>>)}

InitFn ==
  /\ NoPool
  /\ arr \in InitArrays \cup FlatArrays \cup RaggedArrays
  /\ old = arr
  /\ call = Call("new", NoKey, None)
  /\ out = Ok(None)

\* A call op(e) that returns or raises r and leaves the Array unchanged.
Pure(op, e, r) ==
  /\ out' = r
  /\ call' = Call(op, NoKey, e)
  /\ old' = arr
  /\ arr' = arr
  /\ UNCHANGED pool

EqualCall ==
  /\ Fresh
  /\ arr \in InitArrays
  /\ \E b \in EqOperands : Pure("equal", b, EqualTo(arr.e, b))

\* A call op(l, reverse) that returns or raises r.
PureBy(op, l, reverse, r) ==
  /\ out' = r
  /\ call' = OpCall(op, l, PBool(reverse))
  /\ old' = arr
  /\ arr' = arr
  /\ UNCHANGED pool

SortByCall ==
  /\ Fresh
  /\ arr \in FlatArrays
  /\ \E l \in KeyFuns, reverse \in BOOLEAN :
       PureBy("sortBy", l, reverse, SortBy(arr.e, l, reverse))

SortCall ==
  /\ Fresh
  /\ arr \in FlatArrays
  /\ \E reverse \in BOOLEAN : PureBy("sort", "id", reverse, SortPlain(arr.e, reverse))

\* The delimiters: 1 equals the elements 1 and True, 9 equals no element.
Delimiters == {PInt(1), PInt(2), PInt(9)}

SplitCall ==
  /\ Fresh
  /\ arr \in FlatArrays
  /\ \E c \in Delimiters : Pure("split", c, Ok(Split(arr.e, c)))

\* The indices removed: sequences of up to MaxKeyLen positions in any order
\* and with repetitions, and single integers.
Removed ==
  {List([j \in 1..Len(t) |-> PInt(t[j])]) : t \in SeqsUpTo(0..(MaxFlat - 1), MaxKeyLen)}
    \cup {PInt(0), PInt(-1), PInt(MaxFlat)}

RemoveByIndexCall ==
  /\ Fresh
  /\ arr \in InitArrays
  /\ \E b \in Removed : Pure("removeByIndex", b, RemoveByIndex(arr.e, b))

RemoveByIndexInplaceCall ==
  /\ Fresh
  /\ arr \in InitArrays
  /\ \E b \in Removed :
       Mutate("removeByIndex_", NoKey, b, RemoveByIndexInplace(arr.e, b))

FlattenCall ==
  /\ Fresh
  /\ Pure("flatten", None, Flatten(arr.e, 1))

NextFn ==
  \/ EqualCall
  \/ SortByCall
  \/ SortCall
  \/ SplitCall
  \/ RemoveByIndexCall
  \/ RemoveByIndexInplaceCall
  \/ FlattenCall

SpecFn == InitFn /\ [][NextFn]_vars

-----------------------------------------------------------------------------
(***************************************************************************)
(* Array.asyncmap.  The caller creates a ThreadPoolExecutor, submits       *)
(* self.map(fun), shuts the executor down without waiting and returns the  *)
(* Future; the worker thread of the executor takes the items of the work   *)
(* queue in order.  A function mapped is named: "inc" is lambda x: x + 1,  *)
(* "wrap" is lambda x: [x], "even" returns an even x and raises ValueError *)
(* on an odd one.  The functions return: a call that never returns leaves  *)
(* its Future running.                                                     *)
(***************************************************************************)
MapFuns == {"inc", "wrap", "even"}

\* fun(x)
Apply(f, x) ==
  CASE f = "inc" -> Ok(PInt(x.n + 1))
    [] f = "wrap" -> Ok(List(<<x>>))
    [] f = "even" -> IF x.n % 2 = 0 THEN Ok(x) ELSE Fail(Raise("ValueError", "odd"))

\* The Future object the caller holds.
FutureRef == [t |-> "Future", n |-> 0, d |-> 1, e |-> <<>>]

MapArrays == {ArrayOf(s) : s \in SeqsUpTo({PInt(1), PInt(2)}, MaxMap)}

InitAsync ==
  /\ NoPool
  /\ arr \in MapArrays
  /\ old = arr
  /\ call = Call("new", NoKey, None)
  /\ out = Ok(None)

\* executor.submit(self.map, fun): the Future is created pending, the work
\* item is put in the queue and a worker thread is started, which waits for
\* an item.
Submit ==
  /\ Fresh /\ pc = "idle"
  /\ \E f \in MapFuns : call' = OpCall("asyncmap", f, None)
  /\ fut' = Future("pending", Ok(None))
  /\ queue' = Append(queue, "work")
  /\ worker' = [st |-> "waiting", i |-> 0, acc |-> <<>>]
  /\ pc' = "submitted"
  /\ old' = arr
  /\ UNCHANGED <<arr, out, shutdown>>

\* ShutdownQueue that discards the work items that have not been started.
ShutdownDropsWork(q) == <<"stop">>

\* The work queue after executor.shutdown(wait=False): the items stay and
\* None is put after them to wake the worker.
ShutdownQueue(q) == Append(q, "stop")

\* finally: executor.shutdown(wait=False)
Shutdown ==
  /\ pc = "submitted"
  /\ shutdown' = TRUE
  /\ queue' = ShutdownQueue(queue)
  /\ pc' = "shutdown"
  /\ UNCHANGED <<arr, old, call, out, worker, fut>>

\* asyncmap returns the Future.
Return ==
  /\ pc = "shutdown"
  /\ out' = Ok(FutureRef)
  /\ pc' = "returned"
  /\ UNCHANGED <<arr, old, call, queue, shutdown, worker, fut>>

\* The caller retrieves future.result(), which waits for the Future to be
\* finished and returns its result or raises its exception.
Result ==
  /\ pc = "returned" /\ fut.state = "finished"
  /\ out' = fut.res
  /\ call' = OpCall("result", call.f, None)
  /\ pc' = "done"
  /\ UNCHANGED <<arr, old, queue, shutdown, worker, fut>>

\* The worker takes the next item of the queue: it starts a work item, and
\* on None it exits if the executor is shut down, putting None back for the
\* other workers.
Take ==
  /\ worker.st = "waiting" /\ queue # <<>>
  /\ IF Head(queue) = "work"
     THEN /\ fut' = Future("running", Ok(None))
          /\ worker' = [st |-> "running", i |-> 1, acc |-> <<>>]
          /\ queue' = Tail(queue)
     ELSE /\ worker' = IF shutdown THEN NoThread(TRUE) ELSE worker
          /\ queue' = IF shutdown THEN Append(Tail(queue), "stop") ELSE Tail(queue)
          /\ fut' = fut
  /\ UNCHANGED <<arr, old, call, out, pc, shutdown>>

\* self.map(fun) calls fun on the next element; an exception ends the work
\* item and is set on the Future.
ApplyNext ==
  /\ worker.st = "running" /\ worker.i <= Len(arr.e)
  /\ LET r == Apply(call.f, arr.e[worker.i])
     IN  IF IsOk(r)
         THEN /\ worker' = [worker EXCEPT !.i = @ + 1, !.acc = Append(@, r.v)]
              /\ fut' = fut
         ELSE /\ worker' = [st |-> "waiting", i |-> 0, acc |-> <<>>]
              /\ fut' = Future("finished", r)
  /\ UNCHANGED <<arr, old, call, out, pc, queue, shutdown>>

\* self.map(fun) returns Array(map(fun, self)), which is set on the Future.
Finish ==
  /\ worker.st = "running" /\ worker.i > Len(arr.e)
  /\ fut' = Future("finished", Ok(ArrayOf(worker.acc)))
  /\ worker' = [st |-> "waiting", i |-> 0, acc |-> <<>>]
  /\ UNCHANGED <<arr, old, call, out, pc, queue, shutdown>>

WorkerStep ==
  \/ Take
  \/ ApplyNext
  \/ Finish

CallerStep ==
  \/ Submit
  \/ Shutdown
  \/ Return
  \/ Result

NextAsync ==
  \/ CallerStep
  \/ WorkerStep

\* The worker thread, once started, is scheduled until it exits.
SpecAsync == InitAsync /\ [][NextAsync]_vars /\ WF_vars(WorkerStep)

-----------------------------------------------------------------------------
(***************************************************************************)
(* Properties of the mutating methods, checked under Spec.                 *)
(***************************************************************************)
IsSetItem == call.op = "setitem"

\* C1: a __setitem__ call that fails leaves the Array, and every nested
\* Array, with the contents it had before the call.
C1_AllOrNothing == (IsSetItem /\ ~IsOk(out)) => arr = old

RECURSIVE HasRaw(_)

\* v is, or holds at some depth, a list, tuple or range that is not an Array.
HasRaw(v) ==
  \/ v.t = "list"
  \/ IsArray(v) /\ \E i \in 1..Len(v.e) : HasRaw(v.e[i])

\* C5: after any construction, append, prepend, insert, extend, extendLeft,
\* += or __setitem__ call no element at any depth of the Array is a raw
\* list, tuple or range.
C5_ConversionInvariant == ~HasRaw(arr)

\* The components of an integer sequence are integers and not booleans.
IsIntSeq(key) ==
  key.k = "seq" /\ \A j \in 1..Len(key.items) : key.items[j].k = "int"

IsMask(key) ==
  key.k = "seq" /\ Len(key.items) > 0 /\ \A j \in 1..Len(key.items) : key.items[j].k = "bool"

\* The key is one whose number of selected positions C6 speaks of: a slice,
\* an integer sequence, or a tuple (i, slice) that addresses a nested row.
Countable(v, key) ==
  \/ key.k = "slice"
  \/ IsIntSeq(key)
  \/ /\ key.k = "tuple" /\ Len(key.items) = 2
     /\ key.items[1].k = "int" /\ key.items[2].k = "slice"
     /\ InRange(key.items[1].i, Len(v.e))
     /\ IsArray(v.e[Pos(key.items[1].i, Len(v.e))])

\* The number of positions such a key selects.
SelCount(v, key) ==
  IF key.k = "slice" THEN Len(SliceRange(key.s, Len(v.e)))
  ELSE IF key.k = "seq" THEN Len(key.items)
  ELSE Len(SliceRange(key.items[2].s, Len(v.e[Pos(key.items[1].i, Len(v.e))].e)))

\* C6: an assignment of a sequence whose length differs from the number n of
\* positions the key selects fails with a size-mismatch error that reports
\* both counts, and no assignment changes the length of the Array.
C6_AssignSizeChecked ==
  IsSetItem =>
    /\ Len(arr.e) = Len(old.e)
    /\ (Countable(old, call.key) /\ IsBase(call.e)
          /\ PyLen(call.e) # SelCount(old, call.key))
         => /\ out.err.type = "ValueError"
            /\ {out.err.x, out.err.y} = {SelCount(old, call.key), PyLen(call.e)}

\* The 1-based positions of a list of length len that one component of a
\* key selects.
CompSel(comp, len) ==
  IF comp.k = "slice"
  THEN {SliceRange(comp.s, len)[j] + 1 : j \in 1..Len(SliceRange(comp.s, len))}
  ELSE {Pos(comp.i, len)}

RECURSIVE ValidFor(_, _)

\* The components comps, integers and slices, are valid for the depth of v:
\* every integer is in range and every value a component is applied to is
\* an Array.
ValidFor(v, comps) ==
  \/ comps = <<>>
  \/ /\ IsArray(v)
     /\ Head(comps).k = "int" => InRange(Head(comps).i, Len(v.e))
     /\ \A p \in CompSel(Head(comps), Len(v.e)) : ValidFor(v.e[p], Tail(comps))

RECURSIVE Broadcast(_, _, _)

\* v with x at every position that comps selects, and nothing else changed.
Broadcast(v, comps, x) ==
  IF comps = <<>> THEN x
  ELSE Arr([p \in 1..Len(v.e) |->
              IF p \in CompSel(Head(comps), Len(v.e))
              THEN Broadcast(v.e[p], Tail(comps), x)
              ELSE v.e[p]])

\* The key is one C7 speaks of.
BroadcastKey(v, key) ==
  \/ key.k = "slice"
  \/ IsIntSeq(key) /\ \A j \in 1..Len(key.items) : InRange(key.items[j].i, Len(v.e))
  \/ /\ key.k = "tuple" /\ Len(key.items) > 0
     /\ \A j \in 1..Len(key.items) : key.items[j].k \in {"int", "slice"}
     /\ ValidFor(v, key.items)

\* v after the scalar x has been assigned under such a key.
BroadcastResult(v, key, x) ==
  IF key.k = "seq"
  THEN Arr([p \in 1..Len(v.e) |->
              IF \E j \in 1..Len(key.items) : Pos(key.items[j].i, Len(v.e)) = p
              THEN x ELSE v.e[p]])
  ELSE Broadcast(v, IF key.k = "tuple" THEN key.items ELSE <<key>>, x)

\* C7: __setitem__ with a scalar value and a slice, an in-range integer
\* sequence or a valid tuple of integers and slices succeeds; afterwards
\* every selected position holds the value, every other position holds its
\* previous value and no length has changed.
C7_ScalarBroadcast ==
  (IsSetItem /\ ~IsIterable(call.e) /\ BroadcastKey(old, call.key))
    => IsOk(out) /\ arr = BroadcastResult(old, call.key, call.e)

\* A state where a scalar has been written through a tuple key to a column
\* of two rows.
C7_Witness ==
  /\ IsSetItem /\ ~IsIterable(call.e) /\ IsOk(out)
  /\ call.key = KTuple(<<All, KInt(1)>>)
  /\ Len(old.e) = 2 /\ ValidFor(old, call.key.items)
  /\ arr.e[1].e[2] = call.e /\ arr.e[2].e[2] = call.e
  /\ arr.e[1].e[1] = old.e[1].e[1]

\* The number of True items among the first j items of a mask.
RECURSIVE TrueCount(_, _)

TrueCount(items, j) ==
  IF j = 0 THEN 0 ELSE TrueCount(items, j - 1) + items[j].i

\* v after e has been assigned at the True positions of a mask: a scalar to
\* each of them, the values of a sequence in order.
MaskResult(v, items, e) ==
  Arr([p \in 1..Len(v.e) |->
         IF items[p].i = 1
         THEN (IF IsIterable(e) THEN Convert(Items(e)[TrueCount(items, p)]) ELSE e)
         ELSE v.e[p]])

\* C8: __setitem__ with a boolean mask of the length of the Array assigns to
\* exactly the positions where the mask is True and leaves the others
\* unchanged.
C8_MaskAssign ==
  (/\ IsSetItem /\ IsMask(call.key) /\ Len(call.key.items) = Len(old.e)
   /\ IsIterable(call.e) => PyLen(call.e) = TrueCount(call.key.items, Len(old.e)))
    => arr = MaskResult(old, call.key.items, call.e)

IsStr(v) == v.t = "str"

\* The key is an integer in range, a slice or a sequence of in-range
\* integers.
PlainKey(v, key) ==
  \/ key.k = "int" /\ InRange(key.i, Len(v.e))
  \/ key.k = "slice"
  \/ IsIntSeq(key) /\ \A j \in 1..Len(key.items) : InRange(key.items[j].i, Len(v.e))

\* C14: a character string given to the constructor, to append, prepend or
\* insert, or assigned under an integer, a slice or an integer sequence, is
\* stored unchanged as one element at each target position, never split
\* into its characters.  Checked under SpecStr.
C14_StringsAreScalars ==
  /\ Fresh =>
       /\ Len(arr.e) = Len(call.e.e)
       /\ \A i \in 1..Len(call.e.e) : IsStr(call.e.e[i]) => arr.e[i] = call.e.e[i]
  /\ (~Fresh /\ IsStr(call.e)) =>
       /\ call.op = "append" => arr = Arr(Append(old.e, call.e))
       /\ call.op = "prepend" => arr = Arr(<<call.e>> \o old.e)
       /\ (call.op = "insert" /\ call.key.k = "int")
            => arr = Arr(ListInsert(old.e, call.key.i, call.e))
       /\ (IsSetItem /\ PlainKey(old, call.key))
            => IsOk(out) /\ arr = BroadcastResult(old, call.key, call.e)

-----------------------------------------------------------------------------
(***************************************************************************)
(* Properties of __getitem__, checked under SpecGet.                       *)
(***************************************************************************)
IsGetItem == call.op = "getitem"

ExampleC == ArrayInit(<<Numbered(ExampleShape, 0)>>)

RECURSIVE Select(_, _)

\* What the components comps, integers and slices valid for the depth of v,
\* select in v: an integer selects one element and drops a dimension, a
\* slice collects what the rest selects in each of its rows.
Select(v, comps) ==
  IF comps = <<>> THEN v
  ELSE IF Head(comps).k = "int"
  THEN Select(v.e[Pos(Head(comps).i, Len(v.e))], Tail(comps))
  ELSE LET idx == SliceRange(Head(comps).s, Len(v.e))
       IN  Arr([j \in 1..Len(idx) |-> Select(v.e[idx[j] + 1], Tail(comps))])

IsPlainTuple(key) ==
  /\ key.k = "tuple" /\ Len(key.items) > 0
  /\ \A j \in 1..Len(key.items) : key.items[j].k \in {"int", "slice"}

\* C4: a read with a tuple key of integers and slices returns c[i][rest] for
\* a leading integer i and the Array of r[rest], r the rows a leading slice
\* selects, a tuple of one component reading as that component; on the
\* example c, c[0,1] = 2, c[:,0] = Array(1,4) and
\* c[:,0:2] = Array(Array(1,2), Array(4,5)).
C4_TupleRead ==
  IsGetItem =>
    /\ (IsPlainTuple(call.key) /\ ValidFor(arr, call.key.items))
         => out = Ok(Select(arr, call.key.items))
    /\ (IsPlainTuple(call.key) /\ Len(call.key.items) = 1)
         => out = GetItem(arr.e, call.key.items[1])
    /\ (arr = ExampleC /\ call.key = KTuple(<<KInt(0), KInt(1)>>))
         => out = Ok(PInt(2))
    /\ (arr = ExampleC /\ call.key = KTuple(<<All, KInt(0)>>))
         => out = Ok(Arr(<<PInt(1), PInt(4)>>))
    /\ (arr = ExampleC /\ call.key = KTuple(<<All, KSlice(<<0>>, <<2>>, <<>>)>>))
         => out = Ok(Arr(<<Arr(<<PInt(1), PInt(2)>>), Arr(<<PInt(4), PInt(5)>>)>>))

\* The example c has been read with the key (:, 0:2).
C4_Witness ==
  /\ IsGetItem /\ arr = ExampleC
  /\ call.key = KTuple(<<All, KSlice(<<0>>, <<2>>, <<>>)>>)
  /\ IsOk(out) /\ Len(out.v.e) = 2 /\ Len(out.v.e[2].e) = 2

RECURSIVE SelectTrue(_, _)

\* The elements of s at the True positions of a mask of the same length.
SelectTrue(s, items) ==
  IF s = <<>> THEN <<>>
  ELSE (IF Head(items).i = 1 THEN <<Head(s)>> ELSE <<>>)
         \o SelectTrue(Tail(s), Tail(items))

\* C9: a read with a boolean mask returns the elements at the True
\* positions in their order if the mask has the length of the Array, and
\* fails with an index-size error reporting the expected and the actual
\* length otherwise.
C9_MaskRead ==
  (IsGetItem /\ IsMask(call.key)) =>
    IF Len(call.key.items) = Len(arr.e)
    THEN out = Ok(Arr(SelectTrue(arr.e, call.key.items)))
    ELSE /\ out.err.type = "IndexError" /\ out.err.msg = "boolean size"
         /\ out.err.x = Len(arr.e) /\ out.err.y = Len(call.key.items)

\* A nested Array of two elements has been read with the mask (False, True).
C9_Witness ==
  /\ IsGetItem /\ call.key = KSeq(<<KBool(FALSE), KBool(TRUE)>>)
  /\ Len(arr.e) = 2 /\ IsArray(arr.e[2])
  /\ out = Ok(Arr(<<arr.e[2]>>))

\* C10: a read with a sequence of k >= 0 in-range integers returns the Array
\* of length k whose j-th element is a[key[j]].
C10_FancyRead ==
  (/\ IsGetItem /\ IsIntSeq(call.key)
   /\ \A j \in 1..Len(call.key.items) : InRange(call.key.items[j].i, Len(arr.e)))
    => out = Ok(Arr([j \in 1..Len(call.key.items) |->
                       arr.e[Pos(call.key.items[j].i, Len(arr.e))]]))

\* The rows of v that a sequence component selects: those at the True
\* positions of a mask, those at the positions of an integer sequence.
SeqRows(v, items) ==
  IF \A j \in 1..Len(items) : items[j].k = "bool"
  THEN SelectTrue(v.e, items)
  ELSE [j \in 1..Len(items) |-> v.e[Pos(items[j].i, Len(v.e))]]

\* The key is a tuple (seq, rest...) whose sequence is a mask of the length
\* of v or a sequence of in-range integers, and whose rest, integers and
\* slices, is valid for every row of v.
IsSeqTuple(v, key) ==
  /\ key.k = "tuple" /\ Len(key.items) > 1
  /\ key.items[1].k = "seq" /\ Len(key.items[1].items) > 0
  /\ \A j \in 2..Len(key.items) : key.items[j].k \in {"int", "slice"}
  /\ LET items == key.items[1].items
     IN  IF \A j \in 1..Len(items) : items[j].k = "bool"
         THEN Len(items) = Len(v.e)
         ELSE \A j \in 1..Len(items) :
                items[j].k = "int" /\ InRange(items[j].i, Len(v.e))
  /\ \A p \in 1..Len(v.e) : ValidFor(v.e[p], Tail(key.items))

\* C11: a read with a tuple key (seq, rest...) is accepted by the validation
\* of the key and returns the Array of r[rest], r the rows that seq selects.
C11_TupleSeqRead ==
  (IsGetItem /\ IsSeqTuple(arr, call.key))
    => /\ out.err # InvalidIndex
       /\ out = Ok(Arr([j \in 1..Len(SeqRows(arr, call.key.items[1].items)) |->
                          Select(SeqRows(arr, call.key.items[1].items)[j],
                                 Tail(call.key.items))]))

RECURSIVE HitsScalar(_, _)

\* The components comps, integers and slices, are more than the nesting
\* depth of v where they address it: every integer on the way is in range,
\* every slice selects a row, and each element reached while components are
\* left is, at some depth, not an Array.
HitsScalar(v, comps) ==
  /\ comps # <<>>
  /\ \/ ~IsArray(v)
     \/ /\ IsArray(v)
        /\ Head(comps).k = "int" => InRange(Head(comps).i, Len(v.e))
        /\ CompSel(Head(comps), Len(v.e)) # {}
        /\ \A p \in CompSel(Head(comps), Len(v.e)) : HitsScalar(v.e[p], Tail(comps))

\* C12: a read with a tuple key of integers and slices that has more
\* components than the nesting depth at the addressed position fails with
\* the IndexError "too many indices", whether the tuple starts with an
\* integer or with a slice.
C12_TooManyIndices ==
  (IsGetItem /\ IsPlainTuple(call.key) /\ HitsScalar(arr, call.key.items))
    => out = Fail(TooMany)

-----------------------------------------------------------------------------
(***************************************************************************)
(* Properties of the element-wise operations, checked under SpecOp.        *)
(***************************************************************************)
\* The operand paired with the i-th element of the receiver.
OperandAt(e, i) == IF IsIterable(e) THEN Items(e)[i] ELSE e

\* C2: an element-wise operation with a sequence of the same length or with
\* a scalar returns a new Array of the length of the receiver whose element
\* i is op(a[i], b[i]), respectively op(a[i], s).
C2_Elementwise ==
  (/\ call.op = "operate"
   /\ IsIterable(call.e) => PyLen(call.e) = Len(old.e)
   /\ \A i \in 1..Len(old.e) : IsOk(OpApply(call.f, old.e[i], OperandAt(call.e, i))))
    => /\ IsOk(out) /\ IsArray(out.v) /\ Len(out.v.e) = Len(old.e)
       /\ \A i \in 1..Len(old.e) :
            out.v.e[i] = OpApply(call.f, old.e[i], OperandAt(call.e, i)).v
       /\ arr = old

\* Array(-3, 2) has had a sequence of two elements subtracted.
C2_Witness ==
  /\ call.op = "operate" /\ call.f = "sub"
  /\ old = Arr(<<PInt(-3), PInt(2)>>) /\ call.e = List(<<PInt(-1), PInt(2)>>)
  /\ out = Ok(Arr(<<PInt(-2), PInt(0)>>))

\* C3: an element-wise operation, pure or in place, with a sequence of
\* another length than the receiver fails with a size-mismatch error that
\* reports the length of the receiver and then that of the operand, and
\* leaves the receiver unchanged.
C3_SizeMismatch ==
  (/\ call.op \in {"operate", "operate_"}
   /\ IsIterable(call.e) /\ PyLen(call.e) # Len(old.e))
    => /\ out.err.type = "ValueError" /\ out.err.msg = "lengths must match"
       /\ out.err.x = Len(old.e) /\ out.err.y = PyLen(call.e)
       /\ arr = old

\* An in-place operation on two elements has been given three.
C3_Witness ==
  /\ call.op = "operate_" /\ Len(old.e) = 2 /\ IsIterable(call.e) /\ PyLen(call.e) = 3
  /\ out.err = RaiseSize("ValueError", "lengths must match", 2, 3)

-----------------------------------------------------------------------------
(***************************************************************************)
(* Properties of the other methods, checked under SpecFn.                  *)
(***************************************************************************)
IsSeq(v) == v.t \in {"list", "Array"}

RECURSIVE SameElements(_, _)

\* x and y compare equal: two sequences if they have the same length and
\* their corresponding elements compare equal, two scalars if they have
\* the same value.
SameElements(x, y) ==
  IF IsSeq(x) /\ IsSeq(y)
  THEN Len(x.e) = Len(y.e) /\ \A i \in 1..Len(x.e) : SameElements(x.e[i], y.e[i])
  ELSE IF IsSeq(x) \/ IsSeq(y) THEN FALSE
  ELSE IF IsNum(x) /\ IsNum(y) THEN x.n * y.d = y.n * x.d
  ELSE x = y

\* C13: a.equal(b) for a sequence b returns true if a and b have the same
\* length and all corresponding elements compare equal, recursively for
\* nested Arrays, and returns false in every other case, different lengths
\* included.
C13_Equal ==
  (call.op = "equal" /\ IsSeq(call.e))
    => out = Ok(PBool(SameElements(arr, call.e)))

IsSort == call.op \in {"sortBy", "sort"}

\* The position in the descending stable order of the element at position
\* i of s: after the elements of larger key and after the earlier elements
\* of equal key.
RankDesc(s, l, i) ==
  1 + Cardinality({h \in 1..Len(s) :
                     \/ KeyOf(l, s[h]) > KeyOf(l, s[i])
                     \/ KeyOf(l, s[h]) = KeyOf(l, s[i]) /\ h < i})

\* The position in the ascending stable order.
RankAsc(s, l, i) ==
  1 + Cardinality({h \in 1..Len(s) :
                     \/ KeyOf(l, s[h]) < KeyOf(l, s[i])
                     \/ KeyOf(l, s[h]) = KeyOf(l, s[i]) /\ h < i})

\* C15 as stated: sortBy(l, reverse=True) and sort(reverse=True) return the
\* element-by-element reversal of the stable ascending result, so elements
\* with equal keys appear in the reverse of their original relative order.
C15_ReverseInverts ==
  (IsSort /\ call.e = PBool(TRUE))
    => /\ IsOk(out) /\ Len(out.v.e) = Len(old.e)
       /\ \A i \in 1..Len(old.e) :
            out.v.e[Len(old.e) + 1 - RankAsc(old.e, call.f, i)] = old.e[i]

\* C15 as amended: sortBy(l, reverse=True) and sort(reverse=True) return the
\* elements in descending order of key, elements with equal keys in their
\* original relative order; this is the reversal of the stable ascending
\* result when the keys are pairwise distinct.
C15_ReverseStable ==
  (IsSort /\ call.e = PBool(TRUE))
    => /\ IsOk(out) /\ Len(out.v.e) = Len(old.e) /\ arr = old
       /\ \A i \in 1..Len(old.e) : out.v.e[RankDesc(old.e, call.f, i)] = old.e[i]
       /\ (\A j \in 1..Len(old.e), k \in 1..Len(old.e) :
             j # k => KeyOf(call.f, old.e[j]) # KeyOf(call.f, old.e[k]))
            => \A i \in 1..Len(old.e) :
                 out.v.e[Len(old.e) + 1 - RankAsc(old.e, call.f, i)] = old.e[i]

\* Array(1, 2, 3) has been sorted by x % 2 in reverse: 1 and 3, of equal
\* key, keep their order.
C15_Witness ==
  /\ call.op = "sortBy" /\ call.f = "mod2" /\ call.e = PBool(TRUE)
  /\ old = Arr(<<PInt(1), PInt(2), PInt(3)>>)
  /\ out = Ok(Arr(<<PInt(1), PInt(3), PInt(2)>>))

RECURSIVE Concat(_)

\* The concatenation of the elements of the Arrays of a sequence.
Concat(vs) == IF vs = <<>> THEN <<>> ELSE Head(vs).e \o Concat(Tail(vs))

RECURSIVE Without(_, _)

\* s with every element that equals c removed.
Without(s, c) ==
  IF s = <<>> THEN <<>>
  ELSE (IF SameElements(Head(s), c) THEN <<>> ELSE <<Head(s)>>) \o Without(Tail(s), c)

\* C16: split(c) on a one-dimensional Array, the empty Array and an Array
\* of delimiters included, returns sub-Arrays none of which is empty or
\* contains c, and whose concatenation in order is the original Array with
\* every occurrence of c removed.
C16_SplitDropsEmpty ==
  call.op = "split"
    => /\ IsOk(out) /\ IsArray(out.v)
       /\ \A j \in 1..Len(out.v.e) :
            /\ IsArray(out.v.e[j]) /\ Len(out.v.e[j].e) > 0
            /\ \A h \in 1..Len(out.v.e[j].e) : ~SameElements(out.v.e[j].e[h], call.e)
       /\ Concat(out.v.e) = Without(old.e, call.e)

-----------------------------------------------------------------------------
(***************************************************************************)
(* Properties of asyncmap, checked under SpecAsync.                        *)
(***************************************************************************)
\* Array(map(fun, v)), or the exception of the first element fun raises on.
MapResult(v, f) ==
  LET rs == [i \in 1..Len(v.e) |-> Apply(f, v.e[i])]
  IN  IF \E i \in 1..Len(rs) : ~IsOk(rs[i])
      THEN Fail(rs[CHOOSE i \in 1..Len(rs) :
                     ~IsOk(rs[i]) /\ \A h \in 1..(i - 1) : IsOk(rs[h])].err)
      ELSE Ok(ArrayInit(<<List([i \in 1..Len(rs) |-> rs[i].v])>>))

\* Inside asyncmap the caller's next step never waits for the Future; when
\* asyncmap has returned it has returned the Future and raised nothing; a
\* finished Future, and the retrieval of its result, hold Array(map(fun,
\* self)) or the exception fun raised.
AsyncSafe ==
  /\ pc \in {"submitted", "shutdown"} => ENABLED CallerStep
  /\ pc = "returned" => out = Ok(FutureRef) /\ shutdown
  /\ fut.state = "finished" => fut.res = MapResult(arr, call.f)
  /\ pc = "done" => out = MapResult(arr, call.f)

\* C17: asyncmap(fun) returns a Future without waiting for the mapping; the
\* Future eventually completes although the executor is shut down right
\* after the submit, holding Array(map(fun, self)) or the exception raised
\* by fun; that exception is never raised by the asyncmap call, only by the
\* retrieval of the result.
C17_AsyncMap ==
  /\ []AsyncSafe
  /\ (fut.state = "pending") ~> (fut.state = "finished")

\* asyncmap has returned the Future of a shut-down executor while the worker
\* is still mapping the second element.
C17_Witness ==
  /\ pc = "returned" /\ out = Ok(FutureRef) /\ shutdown
  /\ fut.state = "running" /\ worker.i = 2 /\ Len(arr.e) = 2

-----------------------------------------------------------------------------
(***************************************************************************)
(* Properties of removeByIndex and flatten, checked under SpecFn.          *)
(***************************************************************************)
RECURSIVE KeepFrom(_, _, _)

\* The elements of s from position p on whose 0-based index is not in B.
KeepFrom(s, B, p) ==
  IF p > Len(s) THEN <<>>
  ELSE (IF (p - 1) \in B THEN <<>> ELSE <<s[p]>>) \o KeepFrom(s, B, p + 1)

\* b is a sequence of distinct non-negative indices in the range of v.
DistinctIndices(v, b) ==
  /\ b.t = "list"
  /\ \A j \in 1..Len(b.e) : b.e[j].t = "int" /\ b.e[j].n >= 0 /\ b.e[j].n < Len(v.e)
  /\ \A j \in 1..Len(b.e), k \in 1..Len(b.e) : j # k => b.e[j] # b.e[k]

\* C18: removeByIndex(b), b a sequence of distinct in-range non-negative
\* indices in any order, returns a new Array of the elements whose positions
\* are not in b, in their order, and leaves the original unchanged;
\* removeByIndex_(b) leaves the receiver with those contents.
C18_RemoveByIndex ==
  LET kept == Arr(KeepFrom(old.e, {call.e.e[j].n : j \in 1..Len(call.e.e)}, 1))
  IN  /\ (call.op = "removeByIndex" /\ DistinctIndices(old, call.e))
           => out = Ok(kept) /\ arr = old
      /\ (call.op = "removeByIndex_" /\ DistinctIndices(old, call.e))
           => IsOk(out) /\ arr = kept

RECURSIVE Leaves(_)

\* The leaf elements of v in left-to-right order: the elements that are
\* not sequences, a character string being one element.
Leaves(v) ==
  IF ~IsSeq(v) THEN <<v>>
  ELSE IF v.e = <<>> THEN <<>>
  ELSE Leaves(Head(v.e)) \o Leaves([v EXCEPT !.e = Tail(v.e)])

\* C19: flatten terminates on every Array, whatever its elements (numbers,
\* character strings, nested Arrays of ragged depth), and returns the
\* one-dimensional Array of the leaf elements in left-to-right order.
C19_FlattenTerminates ==
  call.op = "flatten" => out = Ok(Arr(Leaves(old))) /\ arr = old

====
